---- MODULE Spec2Model ----
(***************************************************************************)
(* PsyCheck ingestion server (server.js): the POST /upload handler and the *)
(* SQLite store behind it (tables definitions and submissions).            *)
(*                                                                         *)
(* The handler is synchronous (better-sqlite3 has a blocking API and the   *)
(* handler has no await), so on the single Node.js event loop one request  *)
(* runs to completion before the next starts: a request is one atomic      *)
(* step, and concurrent requests are the sequences of such steps.          *)
(*                                                                         *)
(* Project names are JSON strings, as the schema's TEXT keys expect.  The  *)
(* schema's constraints are enforced by the store (better-sqlite3 opens    *)
(* the database with foreign keys on); the REPLACE of a definitions row    *)
(* leaves its key in place, so it breaks no reference (NO ACTION is        *)
(* checked at the end of the statement).  A statement that raises leaves   *)
(* the tables as they were.                                                *)
(***************************************************************************)
EXTENDS Naturals, Sequences, FiniteSets, TLC

VARIABLES
    definitions,   \* rows of table definitions: [project_name, payload]
    submissions,   \* rows of table submissions: [id, project_name, timestamp, payload]
    clock,         \* the store's CURRENT_TIMESTAMP
    last,          \* the request handled last and the response sent for it
    inflight       \* requests being handled statement by statement

vars == <<definitions, submissions, clock, last, inflight>>

\* Largest value CURRENT_TIMESTAMP takes in the model.
MaxClock == 1

\* Largest number of requests in flight at once.
MaxInflight == 2

(***************************************************************************)
(* JSON values.  Every value is a record with a type tag t and a text v;   *)
(* an object also carries its members.  Undef is JavaScript's undefined,   *)
(* the result of reading a member that is not there.                       *)
(***************************************************************************)
Undef == [t |-> "undefined", v |-> ""]
Null == [t |-> "null", v |-> ""]
Str(s) == [t |-> "string", v |-> s]
Arr(s) == [t |-> "array", v |-> s]
\* A number, by its JavaScript text; JSON.parse reads a literal beyond the
\* double range (1e999) as Infinity.
Num(n) == [t |-> "number", v |-> n]

\* content.quiz: undefined, null, or an object with an optional project.
NoQuiz == [t |-> "undefined", v |-> "", project |-> Undef]
NullQuiz == [t |-> "null", v |-> "", project |-> Undef]
Quiz(p) == [t |-> "object", v |-> "", project |-> p]

\* body[uniqueID]: the members the handler reads, and answers for the rest.
Obj(project, quiz, questions, logic, answers) ==
    [t |-> "object", v |-> "", project |-> project, quiz |-> quiz,
     questions |-> questions, logic |-> logic, answers |-> answers]
Scalar(val) ==
    [t |-> val.t, v |-> val.v, project |-> Undef, quiz |-> NoQuiz,
     questions |-> Undef, logic |-> Undef, answers |-> Undef]

\* JavaScript ToBoolean on a JSON value.
Truthy(x) ==
    CASE x.t \in {"undefined", "null"} -> FALSE
      [] x.t = "string" -> x.v # ""
      [] x.t = "number" -> x.v # "0"
      [] x.t = "boolean" -> x.v = "true"
      [] OTHER -> TRUE

\* a || b and a && b return one of their operands.
Or(a, b) == IF Truthy(a) THEN a ELSE b
And(a, b) == IF Truthy(a) THEN b ELSE a

\* x.name: reading a member of null or undefined throws a TypeError (the
\* callers test Throws first); of any other non-object it gives undefined.
Throws(x) == x.t \in {"undefined", "null"}
Member(x, name) == IF x.t = "object" THEN x[name] ELSE Undef

(***************************************************************************)
(* req.body: the parsed JSON document, as the sequence of its top-level    *)
(* members [key, content] in the order Object.keys lists them.             *)
(***************************************************************************)
Entry(key, content) == [key |-> key, content |-> content]

\* Object.keys(body)
ObjectKeys(body) == [i \in 1..Len(body) |-> body[i].key]

\* body[key]: the content of the member named key (keys are distinct).
Lookup(body, key) == body[CHOOSE i \in 1..Len(body) : body[i].key = key].content

RECURSIVE Join(_)
\* The texts of a sequence of members, separated by commas.
Join(parts) ==
    IF Len(parts) = 0 THEN <<>>
    ELSE IF Len(parts) = 1 THEN parts[1]
    ELSE parts[1] \o <<",">> \o Join(Tail(parts))

\* JSON.stringify of a value without members, as a sequence of tokens.
ValueText(x) ==
    CASE x.t = "null" -> <<"null">>
      [] x.t = "string" -> <<"\"", x.v, "\"">>
      [] x.t = "array" -> <<"[", x.v, "]">>
      [] x.t = "number" /\ x.v \in {"Infinity", "-Infinity", "NaN"} -> <<"null">>
      [] OTHER -> <<x.v>>

\* One member "name": text, left out when the value is undefined.
MemberText(name, x, text) ==
    IF x.t = "undefined" THEN <<>> ELSE << <<"\"", name, "\"", ":">> \o text >>

QuizText(q) ==
    IF q.t = "object"
    THEN <<"{">> \o Join(MemberText("project", q.project, ValueText(q.project)))
         \o <<"}">>
    ELSE ValueText(q)

ContentText(c) ==
    IF c.t = "object"
    THEN <<"{">>
         \o Join(MemberText("project", c.project, ValueText(c.project))
                 \o MemberText("quiz", c.quiz, QuizText(c.quiz))
                 \o MemberText("questions", c.questions, ValueText(c.questions))
                 \o MemberText("logic", c.logic, ValueText(c.logic))
                 \o MemberText("answers", c.answers, ValueText(c.answers)))
         \o <<"}">>
    ELSE ValueText(c)

\* The text of a document: the whole document, top-level keys included.
DocumentText(body) ==
    <<"{">>
    \o Join([i \in 1..Len(body) |->
                <<"\"", body[i].key, "\"", ":">> \o ContentText(body[i].content)])
    \o <<"}">>

(***************************************************************************)
(* JSON.parse of such a text.  ParseValue reads the value that starts at   *)
(* token i and gives it with the position after it; an object is read as   *)
(* the sequence of its members [name, value].                              *)
(***************************************************************************)
RECURSIVE ParseValue(_, _), ParseMembers(_, _, _)
ParseValue(text, i) ==
    IF text[i] = "null"
    THEN [val |-> [t |-> "null", v |-> "", members |-> <<>>], next |-> i + 1]
    ELSE IF text[i] = "\""
    THEN [val |-> [t |-> "string", v |-> text[i + 1], members |-> <<>>],
          next |-> i + 3]
    ELSE IF text[i] = "["
    THEN [val |-> [t |-> "array", v |-> text[i + 1], members |-> <<>>],
          next |-> i + 3]
    ELSE IF text[i] = "{"
    THEN IF text[i + 1] = "}"
         THEN [val |-> [t |-> "object", v |-> "", members |-> <<>>],
               next |-> i + 2]
         ELSE LET m == ParseMembers(text, i + 1, <<>>)
              IN  [val |-> [t |-> "object", v |-> "", members |-> m.members],
                   next |-> m.next]
    ELSE [val |-> [t |-> "number", v |-> text[i], members |-> <<>>],
          next |-> i + 1]

\* The members from token i on ("name": value, ...) up to the closing brace.
ParseMembers(text, i, acc) ==
    LET pv == ParseValue(text, i + 4)
        members == Append(acc, [name |-> text[i + 1], value |-> pv.val])
    IN  IF text[pv.next] = ","
        THEN ParseMembers(text, pv.next + 1, members)
        ELSE [members |-> members, next |-> pv.next + 1]

\* parsed.name: the member of that name, undefined when there is none.
ParsedMember(parsed, name) ==
    IF \E k \in 1..Len(parsed.members) : parsed.members[k].name = name
    THEN parsed.members[CHOOSE k \in 1..Len(parsed.members) :
                          parsed.members[k].name = name].value
    ELSE [t |-> "undefined", v |-> "", members |-> <<>>]

Plain(parsed) == [t |-> parsed.t, v |-> parsed.v]

\* The parsed value as the content of a top-level member.
ParsedContent(parsed) ==
    IF parsed.t = "object"
    THEN LET quiz == ParsedMember(parsed, "quiz")
         IN  Obj(Plain(ParsedMember(parsed, "project")),
                 [t |-> quiz.t, v |-> quiz.v,
                  project |-> Plain(ParsedMember(quiz, "project"))],
                 Plain(ParsedMember(parsed, "questions")),
                 Plain(ParsedMember(parsed, "logic")),
                 Plain(ParsedMember(parsed, "answers")))
    ELSE Scalar(Plain(parsed))

\* JSON.parse(text), as a document.
JSONparse(text) ==
    LET parsed == ParseValue(text, 1).val
    IN  [k \in 1..Len(parsed.members) |->
           Entry(parsed.members[k].name, ParsedContent(parsed.members[k].value))]

(***************************************************************************)
(* The documents uploaded in the model: every shape of document the        *)
(* handler tells apart, over projects P1 and P2 and two top-level keys.     *)
(***************************************************************************)
Keys == {"S1", "S2"}

\* {"project": p, "answers": [a]}
Sub(p, a) == Obj(Str(p), NoQuiz, Undef, Undef, Arr(a))
\* {"project": p, "questions": null, "logic": "", "answers": [a]}
FalsySub(p, a) == Obj(Str(p), NoQuiz, Null, Str(""), Arr(a))
\* {"project": "", "quiz": {"project": p}, "answers": [a]}
QuizSub(p, a) == Obj(Str(""), Quiz(Str(p)), Undef, Undef, Arr(a))
\* {"project": p, "questions": [q]}
Def(p, q) == Obj(Str(p), NoQuiz, Arr(q), Undef, Undef)
\* {"quiz": {"project": p}, "questions": null, "logic": "rule"}
QuizLogicDef(p) == Obj(Undef, Quiz(Str(p)), Null, Str("rule"), Undef)
\* {"project": p, "logic": 1e999}
OverflowDef(p) == Obj(Str(p), NoQuiz, Undef, Num("Infinity"), Undef)
\* {"questions": [q]}
NoProjectDef(q) == Obj(Undef, NoQuiz, Arr(q), Undef, Undef)
\* {"project": "", "quiz": null, "answers": [a]}
NoProjectSub(a) == Obj(Str(""), NullQuiz, Undef, Undef, Arr(a))

SubContents ==
    {Sub("P1", "a1"), Sub("P1", "a2"), FalsySub("P1", "a1"), QuizSub("P2", "a1")}

Docs ==
    {<<>>}
    \cup {<<Entry(k, c)>> : k \in Keys, c \in SubContents \cup {Def("P1", "q1")}}
    \cup {<<Entry("S1", c)>> :
            c \in {Def("P1", "q2"), QuizLogicDef("P2"), NoProjectDef("q1"),
                   NoProjectSub("a1"), Scalar(Null), Scalar(Str("text"))}}
    \cup {<<Entry("S1", c), Entry("S2", Scalar(Null))>> :
            c \in {Def("P1", "q1"), Sub("P1", "a1")}}

\* Documents with a number that JSON.parse reads as Infinity.
NumberDocs == {<<Entry("S1", OverflowDef("P2"))>>}

AllDocs == Docs \cup NumberDocs

\* JSON.stringify(body), tabulated over the documents of the model.
TextOf == [b \in AllDocs |-> DocumentText(b)]
JSONstringify(body) == TextOf[body]

(***************************************************************************)
(* The store.  A table is the set of its rows; the PRIMARY KEY and FOREIGN *)
(* KEY constraints of the schema are what the statements below enforce.    *)
(***************************************************************************)

\* Faulty variants of the statements: a REPLACE that empties the table, and
\* a plain INSERT with no primary key behind it.
UpsertDefinitionTruncating(defs, projectName, payload) ==
    {[project_name |-> projectName, payload |-> payload]}

UpsertDefinitionKeepingOld(defs, projectName, payload) ==
    defs \cup {[project_name |-> projectName, payload |-> payload]}

\* INSERT OR REPLACE INTO definitions (project_name, payload) VALUES (?, ?)
UpsertDefinition(defs, projectName, payload) ==
    {r \in defs : r.project_name # projectName}
    \cup {[project_name |-> projectName, payload |-> payload]}

\* Faulty variant: a check that always finds the project.
definitionExistsAlways(defs, projectName) == TRUE

\* SELECT 1 FROM definitions WHERE project_name = ?
definitionExists(defs, projectName) ==
    \E r \in defs : r.project_name = projectName

\* Faulty variant: DROP TABLE and CREATE TABLE at every start.
CreateTableRecreating(exists, rows) == {}

\* CREATE TABLE IF NOT EXISTS: the rows of the table after the statement,
\* given whether the database file had the table and with which rows.
CreateTableIfNotExists(exists, rows) == IF exists THEN rows ELSE {}

\* Faulty variants: an INSERT into a table without PRIMARY KEY, and an
\* INSERT OR REPLACE.
InsertSubmissionNoKey(defs, subs, id, projectName, now, payload) ==
    [code |-> "OK",
     rows |-> subs \cup {[id |-> id, project_name |-> projectName,
                          timestamp |-> now, payload |-> payload]}]

InsertSubmissionReplacing(defs, subs, id, projectName, now, payload) ==
    [code |-> "OK",
     rows |-> {r \in subs : r.id # id}
              \cup {[id |-> id, project_name |-> projectName,
                     timestamp |-> now, payload |-> payload]}]

\* INSERT INTO submissions (id, project_name, payload) VALUES (?, ?, ?):
\* the error code, if any, and the rows of the table afterwards.  timestamp
\* takes its DEFAULT CURRENT_TIMESTAMP.
InsertSubmission(defs, subs, id, projectName, now, payload) ==
    IF \E r \in subs : r.id = id
    THEN [code |-> "SQLITE_CONSTRAINT_PRIMARYKEY", rows |-> subs]
    ELSE IF ~ \E d \in defs : d.project_name = projectName
    THEN [code |-> "SQLITE_CONSTRAINT_FOREIGNKEY", rows |-> subs]
    ELSE [code |-> "OK",
          rows |-> subs \cup {[id |-> id, project_name |-> projectName,
                               timestamp |-> now, payload |-> payload]}]

\* The statement at which the store raises an unexpected error (I/O error,
\* locked or full database), if any: the SELECT ("read") or the INSERT
\* ("write") of the request.
Faults == {"none", "read", "write"}

(***************************************************************************)
(* router.post('/upload'): the response and the tables after the request.  *)
(* thrown is the exception that reached the outer catch, ops the SQL       *)
(* statements the request ran, in order.                                   *)
(***************************************************************************)
Response(status, text, thrown, ops, defs, subs) ==
    [status |-> status, text |-> text, thrown |-> thrown, ops |-> ops,
     definitions |-> defs, submissions |-> subs]

InternalServerError(thrown, ops, defs, subs) ==
    Response(500, "Internal Server Error", thrown, ops, defs, subs)

\* const projectName = content.project || (content.quiz && content.quiz.project)
ProjectName(content) ==
    Or(Member(content, "project"),
       And(Member(content, "quiz"), Member(Member(content, "quiz"), "project")))

\* Faulty variant: only questions marks a definition.
IsDefinitionByQuestions(content) == Truthy(Member(content, "questions"))

\* if (content.questions || content.logic)
IsDefinition(content) ==
    Truthy(Or(Member(content, "questions"), Member(content, "logic")))

\* Faulty variants of the definition path: one that asks for the project
\* first, as the submission path does, and one whose REPLACE deletes the
\* submissions of the replaced row (ON DELETE CASCADE).
DefinitionPathChecking(defs, subs, body, projectName, fault) ==
    LET select == <<"SELECT 1 FROM definitions">>
        ops == select \o <<"INSERT OR REPLACE INTO definitions">>
    IN  IF ~ definitionExists(defs, projectName)
        THEN Response(412, "Precondition Failed: Project definition not found",
                      "none", select, defs, subs)
        ELSE IF fault = "write"
        THEN InternalServerError("SqliteError", ops, defs, subs)
        ELSE Response(200, "Definition Saved", "none", ops,
                      UpsertDefinition(defs, projectName, JSONstringify(body)), subs)

DefinitionPathCascading(defs, subs, body, projectName, fault) ==
    LET ops == <<"INSERT OR REPLACE INTO definitions">>
    IN  IF fault = "write"
        THEN InternalServerError("SqliteError", ops, defs, subs)
        ELSE Response(200, "Definition Saved", "none", ops,
                      UpsertDefinition(defs, projectName, JSONstringify(body)),
                      {r \in subs : r.project_name # projectName})

\* CHECK 1: the definition path.
DefinitionPath(defs, subs, body, projectName, fault) ==
    LET ops == <<"INSERT OR REPLACE INTO definitions">>
    IN  IF fault = "write"
        THEN InternalServerError("SqliteError", ops, defs, subs)
        ELSE Response(200, "Definition Saved", "none", ops,
                      UpsertDefinition(defs, projectName, JSONstringify(body)), subs)

\* Faulty variants of the submission path: one that tries the INSERT a second
\* time when it fails, and one that looks for the unique ID before it looks
\* for the project.
SubmissionPathRetrying(defs, subs, now, body, uniqueID, projectName, fault) ==
    LET select == <<"SELECT 1 FROM definitions">>
        insert == select \o <<"INSERT INTO submissions">>
        ins == InsertSubmission(defs, subs, uniqueID, projectName, now,
                                JSONstringify(body))
    IN  IF fault = "read"
        THEN InternalServerError("SqliteError", select, defs, subs)
        ELSE IF ~ definitionExists(defs, projectName)
        THEN Response(412, "Precondition Failed: Project definition not found",
                      "none", select, defs, subs)
        ELSE IF fault = "write"
        THEN InternalServerError("SqliteError",
                                 insert \o <<"INSERT INTO submissions">>, defs, subs)
        ELSE IF ins.code = "OK"
        THEN Response(200, "OK", "none", insert, defs, ins.rows)
        ELSE Response(200, "Already Saved", "none",
                      insert \o <<"INSERT INTO submissions">>, defs, subs)

SubmissionPathDuplicateFirst(defs, subs, now, body, uniqueID, projectName, fault) ==
    LET select == <<"SELECT 1 FROM definitions">>
        insert == select \o <<"INSERT INTO submissions">>
        ins == InsertSubmission(defs, subs, uniqueID, projectName, now,
                                JSONstringify(body))
    IN  IF fault = "read"
        THEN InternalServerError("SqliteError", select, defs, subs)
        ELSE IF \E r \in subs : r.id = uniqueID
        THEN Response(200, "Already Saved", "none", insert, defs, subs)
        ELSE IF ~ definitionExists(defs, projectName)
        THEN Response(412, "Precondition Failed: Project definition not found",
                      "none", select, defs, subs)
        ELSE IF fault = "write" \/ ins.code # "OK"
        THEN InternalServerError("SqliteError", insert, defs, subs)
        ELSE Response(200, "OK", "none", insert, defs, ins.rows)

\* CHECK 2: the submission path.
SubmissionPath(defs, subs, now, body, uniqueID, projectName, fault) ==
    LET select == <<"SELECT 1 FROM definitions">>
        insert == select \o <<"INSERT INTO submissions">>
        defCheck == definitionExists(defs, projectName)
        ins == InsertSubmission(defs, subs, uniqueID, projectName, now,
                                JSONstringify(body))
    IN  IF fault = "read"
        THEN InternalServerError("SqliteError", select, defs, subs)
        ELSE IF ~ defCheck
        THEN Response(412, "Precondition Failed: Project definition not found",
                      "none", select, defs, subs)
        ELSE IF fault = "write"
        THEN InternalServerError("SqliteError", insert, defs, subs)
        ELSE IF ins.code = "OK"
        THEN Response(200, "OK", "none", insert, defs, ins.rows)
        ELSE IF ins.code = "SQLITE_CONSTRAINT_PRIMARYKEY"
        THEN Response(200, "Already Saved", "none", insert, defs, subs)
        ELSE InternalServerError("SqliteError", insert, defs, subs)

\* Faulty variant of 2b: the catch rethrows every error of the INSERT.
SubmissionInsertRethrowing(defs, subs, now, body, uniqueID, projectName, fault) ==
    LET ops == <<"SELECT 1 FROM definitions", "INSERT INTO submissions">>
        ins == InsertSubmission(defs, subs, uniqueID, projectName, now,
                                JSONstringify(body))
    IN  IF fault # "write" /\ ins.code = "OK"
        THEN Response(200, "OK", "none", ops, defs, ins.rows)
        ELSE InternalServerError("SqliteError", ops, defs, subs)

\* 2b alone: the INSERT and its catch, run after the SELECT of 2a has found
\* the project.
SubmissionInsert(defs, subs, now, body, uniqueID, projectName, fault) ==
    LET ops == <<"SELECT 1 FROM definitions", "INSERT INTO submissions">>
        ins == InsertSubmission(defs, subs, uniqueID, projectName, now,
                                JSONstringify(body))
    IN  IF fault = "write"
        THEN InternalServerError("SqliteError", ops, defs, subs)
        ELSE IF ins.code = "OK"
        THEN Response(200, "OK", "none", ops, defs, ins.rows)
        ELSE IF ins.code = "SQLITE_CONSTRAINT_PRIMARYKEY"
        THEN Response(200, "Already Saved", "none", ops, defs, subs)
        ELSE InternalServerError("SqliteError", ops, defs, subs)

\* Faulty variant: no test for the empty document, so that uniqueID and
\* content are undefined and reading content.project throws.
PostUploadUnchecked(defs, subs, now, body, fault) ==
    IF Len(body) = 0 \/ Throws(body[1].content)
    THEN InternalServerError("TypeError", <<>>, defs, subs)
    ELSE
    LET content == body[1].content
        projectName == ProjectName(content)
    IN  IF ~ Truthy(projectName)
        THEN Response(400, "Invalid JSON: 'project' field missing.",
                      "none", <<>>, defs, subs)
        ELSE IF IsDefinition(content)
        THEN DefinitionPath(defs, subs, body, projectName.v, fault)
        ELSE SubmissionPath(defs, subs, now, body, body[1].key,
                            projectName.v, fault)

PostUpload(defs, subs, now, body, fault) ==
    LET rootKeys == ObjectKeys(body)
    IN  IF Len(rootKeys) = 0
        THEN Response(400, "Empty JSON", "none", <<>>, defs, subs)
        ELSE
        LET uniqueID == rootKeys[1]
            content == Lookup(body, uniqueID)
        IN  IF Throws(content)
            THEN InternalServerError("TypeError", <<>>, defs, subs)
            ELSE
            LET projectName == ProjectName(content)
            IN  IF ~ Truthy(projectName)
                THEN Response(400, "Invalid JSON: 'project' field missing.",
                              "none", <<>>, defs, subs)
                ELSE IF IsDefinition(content)
                THEN DefinitionPath(defs, subs, body, projectName.v, fault)
                ELSE SubmissionPath(defs, subs, now, body, uniqueID,
                                    projectName.v, fault)

(***************************************************************************)
(* The server.                                                             *)
(***************************************************************************)
NoRequest == [status |-> 0, text |-> "", thrown |-> "none", ops |-> <<>>]

\* A free slot for a request in flight.
Idle ==
    [pc |-> "idle", body |-> <<>>, sawRow |-> FALSE, status |-> 0, text |-> "",
     thrown |-> "none", ops |-> <<>>]

\* CREATE TABLE IF NOT EXISTS on a new database file: both tables empty.
Init ==
    /\ definitions = {}
    /\ submissions = {}
    /\ clock = 0
    /\ last = NoRequest
    /\ inflight = [i \in 1..MaxInflight |-> Idle]

\* One POST /upload, handled to completion.
Upload(body, fault) ==
    LET res == PostUpload(definitions, submissions, clock, body, fault)
    IN  /\ definitions' = res.definitions
        /\ submissions' = res.submissions
        /\ last' = [status |-> res.status, text |-> res.text,
                    thrown |-> res.thrown, ops |-> res.ops]
        /\ UNCHANGED <<clock, inflight>>

\* Time passes between requests.
Tick ==
    /\ clock < MaxClock
    /\ clock' = clock + 1
    /\ UNCHANGED <<definitions, submissions, last, inflight>>

Handle == \E body \in Docs, fault \in Faults : Upload(body, fault)

Next == Handle \/ Tick

Spec == Init /\ [][Next]_vars

(***************************************************************************)
(* Restarts.  The database file outlives the process (DB_PATH is on the    *)
(* /data volume): a new process runs the database setup on the file as the *)
(* old one left it, and remembers no request.                              *)
(***************************************************************************)
Restart ==
    /\ definitions' = CreateTableIfNotExists(TRUE, definitions)
    /\ submissions' = CreateTableIfNotExists(TRUE, submissions)
    /\ last' = NoRequest
    /\ inflight' = [i \in 1..MaxInflight |-> Idle]
    /\ UNCHANGED clock

RestartNext == Handle \/ Tick \/ Restart

RestartSpec == Init /\ [][RestartNext]_vars

(***************************************************************************)
(* The server on a store that answers every statement: the try blocks of   *)
(* the handler never catch a store error other than the primary-key        *)
(* conflict.                                                               *)
(***************************************************************************)
HandleFaultFree == \E body \in Docs : Upload(body, "none")

FaultFreeNext == HandleFaultFree \/ Tick

FaultFreeSpec == Init /\ [][FaultFreeNext]_vars

\* The same server, with the documents of NumberDocs uploaded as well.
HandleNumbers == \E body \in AllDocs : Upload(body, "none")

NumberNext == HandleNumbers \/ Tick

NumberSpec == Init /\ [][NumberNext]_vars

(***************************************************************************)
(* Concurrent requests, statement by statement.  Within one server process *)
(* a request runs to completion, but several connections to the database   *)
(* file interleave at the statements, each of which the store runs         *)
(* atomically; this specification allows every such interleaving, the      *)
(* run-to-completion ones included.  The store does not fault here, and    *)
(* each response stays with its request until the slot is released.        *)
(***************************************************************************)

\* The documents of the concurrent requests: submissions under one unique
\* ID, of two projects, and the definitions of these projects.
RaceDocs ==
    {<<Entry("S1", Sub("P1", "a1"))>>, <<Entry("S1", Sub("P1", "a2"))>>,
     <<Entry("S1", QuizSub("P2", "a1"))>>,
     <<Entry("S2", Def("P1", "q1"))>>, <<Entry("S1", QuizLogicDef("P2"))>>}

\* A request arrives.
Receive(i, body) ==
    /\ inflight[i].pc = "idle"
    /\ inflight' = [inflight EXCEPT ![i] = [Idle EXCEPT !.pc = "received",
                                                        !.body = body]]
    /\ UNCHANGED <<definitions, submissions, clock, last>>

\* The handler up to and including its first statement.  A submission whose
\* project the SELECT finds goes on to the INSERT; every other request is
\* answered here.
Begin(i) ==
    LET req == inflight[i]
        res == PostUpload(definitions, submissions, clock, req.body, "none")
    IN  /\ req.pc = "received"
        /\ IF Len(res.ops) = 2
           THEN /\ inflight' =
                     [inflight EXCEPT ![i].pc = "insert",
                        ![i].sawRow =
                           \E r \in submissions : r.id = req.body[1].key]
                /\ UNCHANGED <<definitions, submissions>>
           ELSE /\ inflight' =
                     [inflight EXCEPT ![i].pc = "done",
                        ![i].status = res.status, ![i].text = res.text,
                        ![i].thrown = res.thrown, ![i].ops = res.ops]
                /\ definitions' = res.definitions
                /\ submissions' = res.submissions
        /\ UNCHANGED <<clock, last>>

\* The INSERT of a submission and the response.
Finish(i) ==
    LET req == inflight[i]
        uniqueID == ObjectKeys(req.body)[1]
        projectName == ProjectName(Lookup(req.body, uniqueID))
        res == SubmissionInsert(definitions, submissions, clock, req.body,
                                uniqueID, projectName.v, "none")
    IN  /\ req.pc = "insert"
        /\ inflight' =
             [inflight EXCEPT ![i].pc = "done",
                ![i].status = res.status, ![i].text = res.text,
                ![i].thrown = res.thrown, ![i].ops = res.ops]
        /\ definitions' = res.definitions
        /\ submissions' = res.submissions
        /\ UNCHANGED <<clock, last>>

\* The response has been sent; the slot is free again.
Release(i) ==
    /\ inflight[i].pc = "done"
    /\ inflight' = [inflight EXCEPT ![i] = Idle]
    /\ UNCHANGED <<definitions, submissions, clock, last>>

Arrive == \E i \in 1..MaxInflight, body \in RaceDocs : Receive(i, body)
Run == \E i \in 1..MaxInflight : Begin(i) \/ Finish(i) \/ Release(i)

ConcNext == Arrive \/ Run \/ Tick

ConcSpec == Init /\ [][ConcNext]_vars

(***************************************************************************)
(* Vocabulary of the properties.                                           *)
(***************************************************************************)

\* The outcome of uploading body in the current state.
Out(body, fault) == PostUpload(definitions, submissions, clock, body, fault)

\* The content under the first top-level key, and that key.
FirstContent(body) == body[1].content
FirstKey(body) == body[1].key

\* content.project or content.quiz.project is present and names a project.
HasProject(c) ==
    /\ c.t = "object"
    /\ \/ Truthy(c.project)
       \/ c.quiz.t = "object" /\ Truthy(c.quiz.project)

DocProject(body) ==
    LET c == FirstContent(body)
    IN  IF Truthy(c.project) THEN c.project.v ELSE c.quiz.project.v

HasTruthyQuestionsOrLogic(c) ==
    c.t = "object" /\ (Truthy(c.questions) \/ Truthy(c.logic))

SubmissionDoc(body) ==
    /\ Len(body) >= 1
    /\ HasProject(FirstContent(body))
    /\ ~ HasTruthyQuestionsOrLogic(FirstContent(body))

DefinitionDoc(body) ==
    /\ Len(body) >= 1
    /\ HasProject(FirstContent(body))
    /\ HasTruthyQuestionsOrLogic(FirstContent(body))

Defined(p) == \E d \in definitions : d.project_name = p

RowsOf(subs, id) == {r \in subs : r.id = id}
DefsOf(defs, p) == {d \in defs : d.project_name = p}

StoreUnchanged(out) ==
    out.definitions = definitions /\ out.submissions = submissions

(***************************************************************************)
(* C1.  A submission document for a defined project, absent a storage      *)
(* fault: if no row has its unique ID, the upload inserts exactly one row  *)
(* (that ID, the project, the current time, the whole document) and        *)
(* returns 200; if a row has it, the upload returns 200 and changes no     *)
(* row, whatever payload and defined project it carries.  No upload under  *)
(* the same first key changes the row, and no ID ever has two rows.        *)
(***************************************************************************)
C1_SubmissionWrittenOnce ==
    /\ \A r1, r2 \in submissions : r1.id = r2.id => r1 = r2
    /\ \A body \in Docs :
         SubmissionDoc(body) /\ Defined(DocProject(body)) =>
           LET out == Out(body, "none")
               id == FirstKey(body)
               row == [id |-> id, project_name |-> DocProject(body),
                       timestamp |-> clock, payload |-> JSONstringify(body)]
           IN  /\ out.status = 200
               /\ Cardinality(RowsOf(out.submissions, id)) = 1
               /\ out.definitions = definitions
               /\ IF RowsOf(submissions, id) = {}
                  THEN out.submissions = submissions \cup {row}
                  ELSE out.submissions = submissions
    /\ \A body \in Docs, fault \in Faults :
         Len(body) >= 1 =>
           \A r \in RowsOf(submissions, FirstKey(body)) :
             RowsOf(Out(body, fault).submissions, r.id) = {r}

\* A duplicate upload was answered while another submission was stored too.
C1_Witness ==
    /\ last.text = "Already Saved"
    /\ Cardinality(submissions) = 2
    /\ Cardinality(definitions) = 2

(***************************************************************************)
(* C2.  A submission document whose project has no definitions row is      *)
(* answered 412 when the existence query does not fault, and in every case *)
(* leaves definitions and submissions unchanged and is not answered 200.   *)
(***************************************************************************)
C2_UnknownProject ==
    \A body \in Docs :
      SubmissionDoc(body) /\ ~ Defined(DocProject(body)) =>
        /\ \A fault \in Faults \ {"read"} : Out(body, fault).status = 412
        /\ \A fault \in Faults :
             StoreUnchanged(Out(body, fault)) /\ Out(body, fault).status # 200

\* 412 was answered although another project is defined and has a submission.
C2_Witness ==
    /\ last.status = 412
    /\ definitions # {}
    /\ submissions # {}

(***************************************************************************)
(* C3.  Referential integrity: every submissions row names a project that  *)
(* has a definitions row.                                                  *)
(***************************************************************************)
C3_ReferentialIntegrity ==
    \A r \in submissions : \E d \in definitions : d.project_name = r.project_name

\* Submissions of two projects are stored and a definition was just saved.
C3_Witness ==
    /\ \E r \in submissions : r.project_name = "P1"
    /\ \E r \in submissions : r.project_name = "P2"
    /\ last.text = "Definition Saved"

(***************************************************************************)
(* C4.  Definition upsert is last-write-wins and idempotent: no project    *)
(* has two definitions rows; a definition upload for project P, absent a   *)
(* storage fault, leaves as the only row of P the whole uploaded document  *)
(* and leaves every other row alone; uploading the same document again     *)
(* changes nothing; and nothing but a saved definition upload for P        *)
(* changes the row of P.                                                   *)
(***************************************************************************)
C4_DefinitionUpsert ==
    /\ \A d1, d2 \in definitions : d1.project_name = d2.project_name => d1 = d2
    /\ \A body \in Docs :
         DefinitionDoc(body) =>
           LET out == Out(body, "none")
               p == DocProject(body)
               again == PostUpload(out.definitions, out.submissions, clock,
                                   body, "none")
           IN  /\ DefsOf(out.definitions, p)
                    = {[project_name |-> p, payload |-> JSONstringify(body)]}
               /\ \A d \in definitions :
                    d.project_name # p => d \in out.definitions
               /\ \A d \in out.definitions :
                    d.project_name # p => d \in definitions
               /\ out.submissions = submissions
               /\ again.definitions = out.definitions
               /\ again.submissions = out.submissions
    /\ \A body \in Docs, fault \in Faults :
         LET out == Out(body, fault)
         IN  \A d \in definitions :
               \/ d \in out.definitions
               \/ /\ out.text = "Definition Saved"
                  /\ DefinitionDoc(body)
                  /\ DocProject(body) = d.project_name

\* Both projects are defined, P1 by the document uploaded under wrapper key
\* S2, and a submission of P1 is stored.
C4_Witness ==
    /\ last.text = "Definition Saved"
    /\ Cardinality(definitions) = 2
    /\ [project_name |-> "P1",
        payload |-> JSONstringify(<<Entry("S2", Def("P1", "q1"))>>)]
         \in definitions
    /\ \E r \in submissions : r.project_name = "P1"

(***************************************************************************)
(* C5, as stated.  Every document whose first-key content contains a       *)
(* questions or logic field is answered 200 "Definition Saved" (absent a   *)
(* storage fault).                                                         *)
(***************************************************************************)
C5_AsStated ==
    [][\A body \in Docs :
         (/\ Upload(body, "none")
          /\ Len(body) >= 1
          /\ FirstContent(body).t = "object"
          /\ \/ FirstContent(body).questions.t # "undefined"
             \/ FirstContent(body).logic.t # "undefined")
         => last'.status = 200 /\ last'.text = "Definition Saved"]_vars

(***************************************************************************)
(* C5, amended.  Every document whose first-key content names a project    *)
(* and has a truthy questions or logic field is, when the write does not   *)
(* fault, answered 200 "Definition Saved" by one INSERT OR REPLACE that    *)
(* leaves the document as the project's definitions row, whether or not a  *)
(* definition or submissions of that project exist.                        *)
(***************************************************************************)
C5_DefinitionStored ==
    \A body \in Docs, fault \in Faults \ {"write"} :
      DefinitionDoc(body) =>
        LET out == Out(body, fault)
        IN  /\ out.status = 200
            /\ out.text = "Definition Saved"
            /\ out.ops = <<"INSERT OR REPLACE INTO definitions">>
            /\ [project_name |-> DocProject(body),
                payload |-> JSONstringify(body)] \in out.definitions

\* A definition identified by its logic field alone was saved for P2, the
\* only project defined, while a submission of P2 was already stored.
C5_Witness ==
    /\ last.text = "Definition Saved"
    /\ [project_name |-> "P2",
        payload |-> JSONstringify(<<Entry("S1", QuizLogicDef("P2"))>>)]
         \in definitions
    /\ \E r \in submissions : r.project_name = "P2"
    /\ Cardinality(definitions) = 1

(***************************************************************************)
(* C6.  Every non-empty document whose first-key content lacks both        *)
(* content.project and content.quiz.project, content that is not an object *)
(* included, is answered 400 and changes no table.                         *)
(***************************************************************************)
C6_MissingProjectName ==
    [][\A body \in Docs, fault \in Faults :
         (/\ Upload(body, fault)
          /\ Len(body) >= 1
          /\ ~ HasProject(FirstContent(body)))
         => /\ last'.status = 400
            /\ definitions' = definitions
            /\ submissions' = submissions]_vars

(***************************************************************************)
(* C7.  500 is answered only when a store statement raised an error; when  *)
(* the store does not fault, every document is answered 200, 400 or 412.   *)
(***************************************************************************)
C7_NoGenericFault ==
    [][\A body \in Docs, fault \in Faults :
         Upload(body, fault) =>
           /\ last'.status \in {200, 400, 412, 500}
           /\ last'.status = 500 =>
                fault # "none" /\ last'.thrown = "SqliteError" /\ last'.ops # <<>>
           /\ fault = "none" => last'.status \in {200, 400, 412}]_vars

(***************************************************************************)
(* C8.  Every payload stored in definitions or submissions is a document   *)
(* with exactly one top-level key, and on a submissions row that key is    *)
(* the row's id.                                                           *)
(***************************************************************************)
C8_SingleKeyEnvelope ==
    /\ \A d \in definitions :
         \E body \in Docs : Len(body) = 1 /\ d.payload = JSONstringify(body)
    /\ \A r \in submissions :
         \E body \in Docs :
           Len(body) = 1 /\ r.payload = JSONstringify(body) /\ FirstKey(body) = r.id

(***************************************************************************)
(* C9.  The empty document is answered 400 "Empty JSON" without any store  *)
(* statement being run and without any change to the tables, whatever the  *)
(* state of the store.                                                     *)
(***************************************************************************)
C9_EmptyDocument ==
    \A body \in Docs, fault \in Faults :
      Len(body) = 0 =>
        LET out == Out(body, fault)
        IN  /\ out.status = 400
            /\ out.text = "Empty JSON"
            /\ out.ops = <<>>
            /\ StoreUnchanged(out)

\* The empty document was refused by a server holding rows in both tables.
C9_Witness ==
    /\ last.status = 400
    /\ last.text = "Empty JSON"
    /\ definitions # {}
    /\ submissions # {}

(***************************************************************************)
(* C10.  Each request makes at most one store mutation: "Definition Saved" *)
(* writes exactly one definitions row (in place of the project's old row,  *)
(* if any) and nothing else; "OK" adds exactly one submissions row and     *)
(* nothing else; 400, 412, 500 and "Already Saved" leave both tables as    *)
(* they were.  Every response is one of these.                             *)
(***************************************************************************)
C10_AtMostOneMutation ==
    \A body \in Docs, fault \in Faults :
      LET out == Out(body, fault)
          added == out.definitions \ definitions
          removed == definitions \ out.definitions
      IN  CASE out.status = 200 /\ out.text = "Definition Saved" ->
                 /\ out.submissions = submissions
                 /\ Cardinality(removed) <= 1
                 /\ \/ Cardinality(added) = 1
                       /\ \A d \in removed, a \in added :
                            d.project_name = a.project_name
                    \/ added = {} /\ removed = {}
                       /\ [project_name |-> DocProject(body),
                           payload |-> JSONstringify(body)] \in definitions
            [] out.status = 200 /\ out.text = "OK" ->
                 /\ out.definitions = definitions
                 /\ submissions \subseteq out.submissions
                 /\ Cardinality(out.submissions \ submissions) = 1
            [] out.status = 200 /\ out.text = "Already Saved" -> StoreUnchanged(out)
            [] out.status \in {400, 412, 500} -> StoreUnchanged(out)
            [] OTHER -> FALSE

\* The INSERT of a submission faulted after the SELECT had succeeded, with
\* rows in both tables.
C10_Witness ==
    /\ last.status = 500
    /\ last.ops = <<"SELECT 1 FROM definitions", "INSERT INTO submissions">>
    /\ definitions # {}
    /\ submissions # {}

(***************************************************************************)
(* C11.  Concurrent uploads of submissions under one unique ID for defined *)
(* projects, interleaved at the statements: every request that reaches the *)
(* INSERT is answered 200, "OK" if no row has the ID yet and "Already      *)
(* Saved" otherwise, never 500; no two of them are both answered "OK"      *)
(* while in flight together; and the ID has exactly one row afterwards.    *)
(***************************************************************************)
C11_ConcurrentDuplicates ==
    /\ \A r1, r2 \in submissions : r1.id = r2.id => r1 = r2
    /\ \A i \in 1..MaxInflight :
         LET req == inflight[i]
             id == FirstKey(req.body)
             res == SubmissionInsert(definitions, submissions, clock, req.body,
                                     id, DocProject(req.body), "none")
         IN  /\ req.pc = "insert" =>
                  /\ res.status = 200
                  /\ Cardinality(RowsOf(res.submissions, id)) = 1
                  /\ res.definitions = definitions
                  /\ IF RowsOf(submissions, id) = {}
                     THEN res.text = "OK"
                     ELSE res.text = "Already Saved" /\ res.submissions = submissions
             /\ req.pc = "done" /\ Len(req.ops) = 2 =>
                  /\ req.status = 200
                  /\ req.text \in {"OK", "Already Saved"}
                  /\ Cardinality(RowsOf(submissions, id)) = 1
    /\ \A i, j \in 1..MaxInflight :
         (/\ i # j
          /\ inflight[i].pc = "done" /\ inflight[j].pc = "done"
          /\ inflight[i].text = "OK" /\ inflight[j].text = "OK")
         => FirstKey(inflight[i].body) # FirstKey(inflight[j].body)

\* Two requests with different payloads raced under one ID: both passed the
\* SELECT before either row existed, one was answered "OK" and the other
\* "Already Saved".
C11_Witness ==
    \E i, j \in 1..MaxInflight :
      /\ inflight[i].pc = "done" /\ inflight[i].text = "OK"
      /\ inflight[j].pc = "done" /\ inflight[j].text = "Already Saved"
      /\ ~ inflight[i].sawRow /\ ~ inflight[j].sawRow
      /\ inflight[i].body # inflight[j].body
      /\ FirstKey(inflight[i].body) = FirstKey(inflight[j].body)

(***************************************************************************)
(* C12.  Definitions are never deleted: no request removes the definitions *)
(* row of a project.  So after a definition upload for P was answered 200, *)
(* P has a row, and a submission naming P is, absent a fault, answered     *)
(* 200, stored if its ID is new and reported already saved otherwise; and  *)
(* whatever faults, a submission naming a defined project is not answered  *)
(* 412.                                                                    *)
(***************************************************************************)
C12_RetryConverges ==
    /\ \A body \in Docs, fault \in Faults :
         \A out \in {Out(body, fault)} :
             \A d \in definitions : DefsOf(out.definitions, d.project_name) # {}
    /\ \A body \in Docs :
         DefinitionDoc(body) /\ Out(body, "none").status = 200 =>
           \A saved \in {Out(body, "none")} :
               /\ DefsOf(saved.definitions, DocProject(body)) # {}
               /\ \A retry \in Docs :
                    SubmissionDoc(retry) /\ DocProject(retry) = DocProject(body) =>
                      \A res \in {PostUpload(saved.definitions, saved.submissions,
                                            clock, retry, "none")} :
                          /\ res.status = 200
                          /\ RowsOf(res.submissions, FirstKey(retry)) # {}
                          /\ IF RowsOf(saved.submissions, FirstKey(retry)) = {}
                             THEN res.text = "OK"
                             ELSE res.text = "Already Saved"
    /\ \A retry \in Docs, fault \in Faults :
         SubmissionDoc(retry) /\ Defined(DocProject(retry)) =>
           Out(retry, fault).status # 412

\* The last request stored a submission of P2 at the latest time, both
\* projects are defined and a submission of P1 stored at time 0 is kept.
C12_Witness ==
    /\ last.text = "OK"
    /\ \E r \in submissions : r.project_name = "P2" /\ r.timestamp = MaxClock
    /\ \E r \in submissions : r.project_name = "P1" /\ r.timestamp = 0
    /\ Cardinality(definitions) = 2

(***************************************************************************)
(* C13.  Among documents with a project name, a document takes the         *)
(* definition path exactly when its content has a truthy questions or      *)
(* logic field, and the submission path otherwise.  The definition path    *)
(* runs the INSERT OR REPLACE and nothing else (no SELECT), is never       *)
(* answered 412, and when the write does not fault is answered 200 in      *)
(* every store state; the submission path starts with the SELECT and       *)
(* never writes definitions.                                               *)
(***************************************************************************)
C13_Classification ==
    \A body \in Docs, fault \in Faults :
      Len(body) >= 1 /\ HasProject(FirstContent(body)) =>
        \A out \in {Out(body, fault)} :
            IF HasTruthyQuestionsOrLogic(FirstContent(body))
            THEN /\ out.ops = <<"INSERT OR REPLACE INTO definitions">>
                 /\ out.status # 412
                 /\ fault # "write" =>
                      out.status = 200 /\ out.text = "Definition Saved"
                 /\ out.submissions = submissions
            ELSE /\ out.ops # <<>>
                 /\ out.ops[1] = "SELECT 1 FROM definitions"
                 /\ out.text # "Definition Saved"
                 /\ out.definitions = definitions

\* The first definition of P1 was saved by the last request, with no row in
\* either table before it.
C13_Witness ==
    /\ last.text = "Definition Saved"
    /\ last.ops = <<"INSERT OR REPLACE INTO definitions">>
    /\ Cardinality(definitions) = 1
    /\ submissions = {}

(***************************************************************************)
(* C14.  Both paths store the whole uploaded document: after "Definition   *)
(* Saved" the payload of the project's definitions row, and after "OK" the *)
(* payload of the new submissions row, parses back to the document that    *)
(* was sent, top-level keys included; and every stored payload parses to a *)
(* document that names its row's project and, for a submission, has the    *)
(* row's id as its first key.                                              *)
(***************************************************************************)
C14_WholeDocumentStored ==
    /\ \A body \in AllDocs, fault \in Faults :
         \A out \in {Out(body, fault)} :
             /\ out.text = "Definition Saved" =>
                  \E d \in out.definitions :
                    d.project_name = DocProject(body) /\ JSONparse(d.payload) = body
             /\ out.text = "OK" =>
                  \E r \in out.submissions \ submissions :
                    r.id = FirstKey(body) /\ JSONparse(r.payload) = body
    /\ \A d \in definitions :
         LET doc == JSONparse(d.payload)
         IN  doc \in AllDocs /\ DefinitionDoc(doc) /\ DocProject(doc) = d.project_name
    /\ \A r \in submissions :
         LET doc == JSONparse(r.payload)
         IN  /\ doc \in AllDocs /\ SubmissionDoc(doc)
             /\ DocProject(doc) = r.project_name /\ FirstKey(doc) = r.id

(***************************************************************************)
(* C15.  The database setup is idempotent: run again on the existing file  *)
(* (a restart between requests) it leaves every definitions row and every  *)
(* submissions row as it was, and every upload has after the restart the   *)
(* outcome it would have had without it.                                   *)
(***************************************************************************)
C15_RestartKeepsStore ==
    LET defs == CreateTableIfNotExists(TRUE, definitions)
        subs == CreateTableIfNotExists(TRUE, submissions)
    IN  /\ defs = definitions
        /\ subs = submissions
        /\ \A body \in Docs, fault \in Faults :
             PostUpload(defs, subs, clock, body, fault) = Out(body, fault)

\* The server was restarted with rows in both tables, and the rows are there.
C15_Witness ==
    /\ last = NoRequest
    /\ Cardinality(definitions) = 2
    /\ Cardinality(submissions) = 2

(***************************************************************************)
(* C16.  Bounded store work: a request runs no statement when it is        *)
(* answered 400, exactly the INSERT OR REPLACE (no read) on the definition *)
(* path, and on the submission path the SELECT followed by at most one     *)
(* INSERT, the INSERT only when the SELECT found the project; no statement *)
(* is run twice.  Every request gets exactly one response, one of 200,     *)
(* 400, 412 and 500.                                                       *)
(***************************************************************************)
C16_BoundedStoreWork ==
    \A body \in Docs, fault \in Faults :
      \A out \in {Out(body, fault)} :
      LET select == <<"SELECT 1 FROM definitions">>
          insert == select \o <<"INSERT INTO submissions">>
      IN  /\ out.status \in {200, 400, 412, 500}
          /\ out.status = 400 => out.ops = <<>>
          /\ Len(body) >= 1 /\ DefinitionDoc(body) =>
               out.ops = <<"INSERT OR REPLACE INTO definitions">>
          /\ Len(body) >= 1 /\ SubmissionDoc(body) =>
               /\ out.ops \in {select, insert}
               /\ out.ops = insert <=>
                    Defined(DocProject(body)) /\ fault # "read"
          /\ Len(out.ops) <= 2
          /\ \A i, j \in 1..Len(out.ops) : out.ops[i] = out.ops[j] => i = j

\* The last request ran the SELECT and the INSERT and stored a second
\* submission.
C16_Witness ==
    /\ last.ops = <<"SELECT 1 FROM definitions", "INSERT INTO submissions">>
    /\ last.text = "OK"
    /\ Cardinality(submissions) = 2

(***************************************************************************)
(* C17.  Submissions are immutable: no request, a definition upload that   *)
(* replaces the definition of their project included, removes or changes a *)
(* submissions row; and a request answered "OK" changes no definitions row *)
(* and adds one submissions row without touching the others.               *)
(***************************************************************************)
C17_SubmissionsImmutable ==
    \A body \in Docs, fault \in Faults :
      \A out \in {Out(body, fault)} :
          /\ submissions \subseteq out.submissions
          /\ \A r \in submissions : RowsOf(out.submissions, r.id) = {r}
          /\ out.text = "OK" =>
               /\ out.definitions = definitions
               /\ Cardinality(out.submissions \ submissions) = 1
          /\ out.text # "OK" => out.submissions = submissions

\* The definition of P1 was replaced by the last request, at the latest
\* time, while a submission of P1 stored at time 0 is kept.
C17_Witness ==
    /\ last.text = "Definition Saved"
    /\ clock = MaxClock
    /\ definitions =
         {[project_name |-> "P1",
           payload |-> JSONstringify(<<Entry("S1", Def("P1", "q2"))>>)]}
    /\ \E r \in submissions : r.project_name = "P1" /\ r.timestamp = 0

(***************************************************************************)
(* C18.  The project is looked for before the duplicate: a submission      *)
(* whose unique ID has a row but whose project has no definition is        *)
(* answered 412 (when the SELECT does not fault), not "Already Saved", and *)
(* the row is left as it is; "Already Saved" is answered only to a         *)
(* document whose own project is defined, after the SELECT and the INSERT. *)
(***************************************************************************)
C18_PreconditionBeforeDuplicate ==
    \A body \in Docs, fault \in Faults :
      \A out \in {Out(body, fault)} :
          /\ (/\ SubmissionDoc(body)
              /\ RowsOf(submissions, FirstKey(body)) # {}
              /\ ~ Defined(DocProject(body)))
             => /\ fault # "read" => out.status = 412
                /\ out.text # "Already Saved"
                /\ StoreUnchanged(out)
          /\ out.text = "Already Saved" =>
               /\ SubmissionDoc(body)
               /\ Defined(DocProject(body))
               /\ RowsOf(submissions, FirstKey(body)) # {}
               /\ out.ops = <<"SELECT 1 FROM definitions", "INSERT INTO submissions">>

\* 412 was answered to a submission of the undefined project P2 although
\* both unique IDs have rows.
C18_Witness ==
    /\ last.status = 412
    /\ Cardinality(submissions) = 2
    /\ \A d \in definitions : d.project_name = "P1"

====
